---- MODULE Spec2Model ----
(***************************************************************************)
(* statscache: the plugin base class (statscache/plugins/__init__.py) and  *)
(* the query service (statscache/app.py).                                  *)
(*                                                                         *)
(* Instants are integers.  A Python value that may be None is a tuple:     *)
(* <<>> is None and <<v>> is the value v.                                  *)
(***************************************************************************)
EXTENDS Integers, Sequences, FiniteSets, Bags, TLC

VARIABLES
    store,      \* the database: plugin -> bag of the rows of its Model
    now,        \* the host clock, time.time(), in seconds
    tz,         \* the host's offset of local time from UTC
    op,         \* the last BasePlugin call and what it returned or raised
    retry,      \* progress through revert(w), update, revert(w), update
    instances,  \* the plugin instances constructed so far
    sched,      \* the Schedule attached to the plugin: its epoch and interval
    resp        \* the last request to the query service and its response

vars == <<store, now, tz, op, retry, instances, sched, resp>>

----------------------------------------------------------------------------
(* Bounds *)

MaxTime == 2        \* instants are 0..MaxTime
MaxRows == 2        \* rows one Model holds in the plugin specification
MaxNameLen == 2     \* characters in a plugin's name
MaxEpoch == 3       \* the statistics epoch is in 0..MaxEpoch
MaxInterval == 3    \* a schedule's interval is in 1..MaxInterval

None == <<>>
Some(v) == <<v>>

Times == 0..MaxTime
Vals == {"x", "y"}
Rows == [ts : Times, val : Vals]

\* the rows the plugins of the plugin specification write
Written == [ts : Times, val : {"x"}]

\* two plugins: one with a rolling window of backlog, one that keeps history
Plugins == {"rolling", "history"}

\* BasePlugin.backlog_delta, a class attribute a plugin may set
backlog_delta(p) == IF p = "rolling" THEN Some(1) ELSE None

\* datetime.datetime.fromtimestamp(float(s)): seconds -> naive local datetime
fromtimestamp(s) == s + tz

\* datetime.datetime.now()
datetime_now == fromtimestamp(now)

----------------------------------------------------------------------------
(* The store, as SQLAlchemy queries use it *)

BagMax(S) == CHOOSE x \in S : \A y \in S : y <= x

\* session.query(model).order_by(model.timestamp.desc()).first(), then
\* getattr(..., 'timestamp', None)
newest_timestamp(bag) ==
    IF BagToSet(bag) = {} THEN None
    ELSE Some(BagMax({r.ts : r \in BagToSet(bag)}))

\* Python's max() over the list latest() builds.  With one element nothing is
\* compared.  With two, max() evaluates (second > first); a datetime compared
\* with None raises TypeError (Python 2 and 3 alike).
py_max(times) ==
    IF Len(times) = 1 THEN [exc |-> "", val |-> times[1]]
    ELSE IF times[1] = None \/ times[2] = None
         THEN [exc |-> "TypeError", val |-> None]
         ELSE [exc |-> "",
               val |-> IF times[2][1] > times[1][1] THEN times[2] ELSE times[1]]

\* BasePlugin.latest
latest(p) ==
    LET actual == <<newest_timestamp(store[p])>>
        times == IF backlog_delta(p) # None
                 THEN Append(actual, Some(datetime_now - backlog_delta(p)[1]))
                 ELSE actual
    IN py_max(times)

revert_filter_older(r, when) == r.ts <= when

\* query.filter(model.timestamp >= when): the rows revert() deletes
revert_filter(r, when) == r.ts >= when

revert_after(bag, when) ==
    LET keep == {r \in BagToSet(bag) : r.ts <= when}
    IN [r \in keep |-> bag[r]]

\* BasePlugin.revert: what is left of a Model
revert(bag, when) ==
    LET keep == {r \in BagToSet(bag) : ~revert_filter(r, when)}
    IN [r \in keep |-> bag[r]]

\* update() of a concrete plugin: it adds the rows its in-memory state yields
update(bag, written) == bag (+) SetToBag(written)

----------------------------------------------------------------------------
(* Plugin classes and BasePlugin.__init__, BasePlugin.ident *)

\* A string is a sequence of characters; an attribute is None or Some(string).
Alphabet == {"A", "b", " ", "(", ",", "!"}
StrUpTo(n) == UNION {[1..k -> Alphabet] : k \in 0..n}
Texts == {None, Some(<<>>), Some(<<"b">>)}
Schedules == {None, Some(<<"1", "d">>)}

\* a plugin class: its class attributes, and the schedule it is given
Classes ==
    [name : {None} \cup {Some(n) : n \in StrUpTo(MaxNameLen)},
     summary : Texts, description : Texts, schedule : Schedules]

\* Python's truth value of an attribute that is None or a string
truthy(attr) == attr # None /\ attr[1] # <<>>

required == <<"name", "summary", "description">>

no_check(cls) == [exc |-> "", val |-> None]

\* BasePlugin.__init__: the loop over the required attributes
init_check(cls) ==
    LET missing == {i \in 1..Len(required) : ~truthy(cls[required[i]])}
    IN IF missing = {} THEN [exc |-> "", val |-> None]
       ELSE [exc |-> "ValueError",
             val |-> Some(required[CHOOSE i \in missing :
                                      \A j \in missing : i <= j])]

\* str.lower(), a character at a time
lower_char(c) == IF c = "A" THEN "a" ELSE c
lower(str) == [i \in 1..Len(str) |-> lower_char(str[i])]

\* str.replace(old, new) for a one-character old; new is a string
RECURSIVE replace(_, _, _)
replace(str, old, new) ==
    IF str = <<>> THEN <<>>
    ELSE (IF Head(str) = old THEN new ELSE <<Head(str)>>)
         \o replace(Tail(str), old, new)

bad == <<"\"", "'", "(", ")", "*", "&", "?", ",">>

\* the loop over the replacements, from the k-th on
RECURSIVE strip_bad(_, _)
strip_bad(str, k) ==
    IF k > Len(bad) THEN str
    ELSE strip_bad(replace(str, bad[k], <<>>), k + 1)

keep_spaces(str) == str

\* ident = self.name.lower().replace(" ", "-")
hyphenate(str) == replace(str, " ", <<"-">>)

\* BasePlugin.ident
ident(cls) ==
    LET stripped == strip_bad(hyphenate(lower(cls.name[1])), 1)
    IN IF cls.schedule # None
       THEN stripped \o <<"-">> \o cls.schedule[1]
       ELSE stripped

----------------------------------------------------------------------------
(* The query service: statscache/app.py *)

DEFAULT_ROWS_PER_PAGE == 100
MAXIMUM_ROWS_PER_PAGE == 100

IntMin(a, b) == IF a <= b THEN a ELSE b

\* plugins.get(name), then hasattr(plugin, 'model'): a registered plugin has
\* the attribute (BasePlugin defines it), None has not
has_model(name) == name \in Plugins

\* hasattr(plugin, 'layout'): BasePlugin defines none; here "rolling" does
has_layout(name) == name = "rolling"

supported == <<"application/json", "text/json", "application/javascript",
               "text/javascript", "application/csv", "text/csv">>

\* flask.request.accept_mimetypes.best_match(supported) or "": accept is the
\* set of types the client accepts, all of one quality
get_mimetype(accept) ==
    LET hits == {i \in 1..Len(supported) : supported[i] \in accept}
    IN IF hits = {} THEN ""
       ELSE supported[CHOOSE i \in hits : \A j \in hits : i <= j]

\* mimetype.endswith('json') or mimetype.endswith('javascript')
is_json(mimetype) ==
    mimetype \in {"application/json", "text/json", "application/javascript",
                  "text/javascript"}

\* mimetype.endswith('csv')
is_csv(mimetype) == mimetype \in {"application/csv", "text/csv"}

\* wants_pagination()
wants_pagination(args) ==
    \/ args.paginate = Some("true")
    \/ args.paginate = Some("yes")
    \/ args.page # None
    \/ args.rows_per_page # None

in_window_before(r, start, stop) ==
    /\ start # None => r.ts >= fromtimestamp(start[1])
    /\ r.ts < fromtimestamp(stop)

\* the two query.filter(...) of plugin_model; stop is never absent
in_window(r, start, stop) ==
    /\ start # None => r.ts >= fromtimestamp(start[1])
    /\ r.ts <= fromtimestamp(stop)

\* the rows of a Model the filters let through
filtered(bag, start, stop) ==
    LET keep == {r \in BagToSet(bag) : in_window(r, start, stop)}
    IN [r \in keep |-> bag[r]]

\* the orders in which the database may return rows of equal timestamp
RECURSIVE arrangements(_)
arrangements(bag) ==
    IF BagToSet(bag) = {} THEN {<<>>}
    ELSE IF Cardinality(BagToSet(bag)) = 1
    THEN LET r == CHOOSE x \in BagToSet(bag) : TRUE
         IN {[i \in 1..bag[r] |-> r]}
    ELSE UNION {{<<r>> \o a : a \in arrangements(bag (-) SetToBag({r}))} :
                r \in BagToSet(bag)}

at_time(bag, t) ==
    LET keep == {r \in BagToSet(bag) : r.ts = t}
    IN [r \in keep |-> bag[r]]

\* order_by(model.timestamp.asc()): every order the database may produce
RECURSIVE ascending(_, _)
ascending(bag, t) ==
    IF t > MaxTime THEN {<<>>}
    ELSE {a \o rest : a \in arrangements(at_time(bag, t)),
                      rest \in ascending(bag, t + 1)}

Reverse(q) == [i \in 1..Len(q) |-> q[Len(q) + 1 - i]]

\* the ordered query: 'asc' ascends, anything else descends
order_by(bag, order) ==
    IF order = Some("asc") THEN ascending(bag, 0)
    ELSE {Reverse(q) : q \in ascending(bag, 0)}

\* A query is its ordered rows with an OFFSET and a LIMIT (None: no LIMIT).
\* Query.limit() and Query.offset() set the clause, replacing an earlier one.
query_all(q) ==
    LET n == Len(q.rows)
        last == IF q.limit = None THEN n ELSE IntMin(n, q.offset + q.limit[1])
    IN SubSeq(q.rows, q.offset + 1, last)

\* Query.count(): SELECT count(*) FROM (the query, LIMIT and OFFSET included)
query_count(q) == Len(query_all(q))

NoHeaders == [paginated |-> FALSE]

\* paginate(queryset)
paginate(q, args) ==
    LET page_number == IF args.page = None THEN 1 ELSE args.page[1]
        page_length ==
            IntMin(MAXIMUM_ROWS_PER_PAGE,
                   IF args.rows_per_page = None THEN DEFAULT_ROWS_PER_PAGE
                   ELSE args.rows_per_page[1])
        items_count == query_count(q)
    IN IF page_length = 0
       THEN [exc |-> "ZeroDivisionError", items |-> <<>>, headers |-> NoHeaders]
       ELSE LET page_count ==
                    (items_count \div page_length)
                    + (IF items_count % page_length > 0 THEN 1 ELSE 0)
                page == [q EXCEPT !.offset = (page_number - 1) * page_length,
                                  !.limit = Some(page_length)]
            IN [exc |-> "",
                items |-> query_all(page),
                headers |-> [paginated |-> TRUE,
                             count |-> page_count,
                             number |-> page_number,
                             previous |-> page_number > 1,
                             next |-> page_number < page_count]]

\* plugin_model(name), given the order the database returns the rows in
plugin_model(name, args, accept, rows) ==
    IF ~has_model(name)
    THEN [status |-> 404, items |-> <<>>, headers |-> NoHeaders, mimetype |-> ""]
    ELSE LET query == [rows |-> rows, offset |-> 0, limit |-> args.limit]
             mimetype == get_mimetype(accept)
             page == IF wants_pagination(args) THEN paginate(query, args)
                     ELSE [exc |-> "", items |-> query_all(query),
                           headers |-> NoHeaders]
         IN IF page.exc # ""
            THEN [status |-> 500, items |-> <<>>, headers |-> NoHeaders,
                  mimetype |-> ""]
            ELSE IF is_json(mimetype) \/ is_csv(mimetype)
            THEN [status |-> 200, items |-> page.items,
                  headers |-> page.headers, mimetype |-> mimetype]
            ELSE [status |-> 406, items |-> <<>>, headers |-> NoHeaders,
                  mimetype |-> ""]

\* plugin_layout(name)
plugin_layout(name, accept) ==
    LET mimetype == get_mimetype(accept)
    IN IF ~is_json(mimetype) THEN 406
       ELSE IF ~has_layout(name) THEN 404
       ELSE 200

\* plugin_index()
plugin_index(accept) ==
    IF ~is_json(get_mimetype(accept)) THEN 406 ELSE 200

----------------------------------------------------------------------------
(* History variables at rest *)

NoOp == [kind |-> "none", plugin |-> "", when |-> 0, deleted |-> 0, clock |-> 0,
         cls |-> None,
         res |-> [exc |-> "", val |-> None]]
NoRetry == [phase |-> 0, plugin |-> "", when |-> 0, written |-> {},
            once |-> EmptyBag]
NoResp == [endpoint |-> "none"]
NoSchedule == [epoch |-> 0, interval |-> 1]

\* op or retry is not recorded in a specification whose claims do not read it
Unobserved == [kind |-> "unobserved"]
Untracked == [phase |-> 0 - 1]
observe(rec) == IF op = Unobserved THEN op ELSE rec

\* revert(w), update, revert(w), update on one plugin, the two updates writing
\* the same rows, all of them at or after w: phase counts the calls seen.
\* Calls on other plugins' Models in between do not restart the count.
retry_on_revert(p, when) ==
    IF retry = Untracked THEN retry
    ELSE IF retry.phase = 2 /\ retry.plugin = p /\ retry.when = when
    THEN [retry EXCEPT !.phase = 3]
    ELSE IF retry.phase \in {2, 3} /\ retry.plugin # p
    THEN retry
    ELSE [phase |-> 1, plugin |-> p, when |-> when, written |-> {},
          once |-> EmptyBag]

retry_on_update(p, written, after) ==
    IF retry = Untracked \/ retry.plugin # p THEN retry
    ELSE IF retry.phase = 1 /\ \A r \in written : r.ts >= retry.when
    THEN [retry EXCEPT !.phase = 2, !.written = written, !.once = after]
    ELSE IF retry.phase = 3 /\ written = retry.written
    THEN [retry EXCEPT !.phase = 4]
    ELSE NoRetry

----------------------------------------------------------------------------
(* The plugin specification: update, revert and latest on the store *)

InitPlugin ==
    /\ store = [p \in Plugins |-> EmptyBag]
    /\ now = 0
    /\ tz \in {0, 1}
    /\ op = NoOp
    /\ retry = Untracked
    /\ instances = {}
    /\ sched = NoSchedule
    /\ resp = NoResp

\* the host clock advances
Tick ==
    /\ now < MaxTime
    /\ now' = now + 1
    /\ UNCHANGED <<store, tz, op, retry, instances, sched, resp>>

\* plugin.update(session)
Update(p, written) ==
    /\ BagCardinality(store[p]) + Cardinality(written) <= MaxRows
    /\ store' = [store EXCEPT ![p] = update(store[p], written)]
    /\ op' = observe([NoOp EXCEPT !.kind = "update", !.plugin = p])
    /\ retry' = retry_on_update(p, written, store'[p])
    /\ UNCHANGED <<now, tz, instances, sched, resp>>

\* plugin.revert(when, session)
Revert(p, when) ==
    /\ store' = [store EXCEPT ![p] = revert(store[p], when)]
    /\ op' = observe([NoOp EXCEPT
                         !.kind = "revert", !.plugin = p, !.when = when,
                         !.deleted = BagCardinality(store[p])
                                     - BagCardinality(store'[p])])
    /\ retry' = retry_on_revert(p, when)
    /\ UNCHANGED <<now, tz, instances, sched, resp>>

\* plugin.latest(session)
Latest(p) ==
    /\ op' = observe([NoOp EXCEPT
                         !.kind = "latest", !.plugin = p, !.res = latest(p),
                         !.clock = datetime_now])
    /\ UNCHANGED <<store, now, tz, retry, instances, sched, resp>>

NextPlugin ==
    \/ Tick
    \/ \E p \in Plugins : \E written \in SUBSET Written \ {{}} : Update(p, written)
    \/ \E p \in Plugins : \E when \in 0..(MaxTime + 1) : Revert(p, when)
    \/ \E p \in Plugins : Latest(p)

SpecPlugin == InitPlugin /\ [][NextPlugin]_vars

\* C1: latest() of a plugin with backlog_delta B returns an instant, never
\* earlier than now - B, and exactly now - B when the plugin's Model is empty.
LatestWithinBacklog ==
    (op.kind = "latest" /\ backlog_delta(op.plugin) # None) =>
        LET floor == op.clock - backlog_delta(op.plugin)[1]
        IN /\ op.res.exc = ""
           /\ op.res.val # None
           /\ op.res.val[1] >= floor
           /\ (store[op.plugin] = EmptyBag => op.res.val[1] = floor)

\* C1 witness: over a Model whose rows are all older, latest() returned
\* now - B
LatestOverRows ==
    /\ op.kind = "latest"
    /\ backlog_delta(op.plugin) # None
    /\ store[op.plugin] # EmptyBag
    /\ op.res.exc = ""
    /\ op.res.val = Some(op.clock - backlog_delta(op.plugin)[1])

\* C3: revert(when) on plugin p leaves no row of p's Model at or after when,
\* leaves every earlier row of it as it was, and leaves every other plugin's
\* Model as it was.
RevertDeletesExactly ==
    [][op'.kind = "revert" =>
         LET p == op'.plugin
             when == op'.when
         IN /\ \A r \in BagToSet(store'[p]) : r.ts < when
            /\ \A r \in BagToSet(store[p]) :
                   r.ts < when => CopiesIn(r, store'[p]) = CopiesIn(r, store[p])
            /\ BagToSet(store'[p]) \subseteq BagToSet(store[p])
            /\ \A q \in Plugins \ {p} : store'[q] = store[q]]_vars

\* C3 witness: a revert deleted rows, kept earlier ones, beside another Model
RevertDeletedSome ==
    /\ op.kind = "revert"
    /\ op.deleted > 0
    /\ store[op.plugin] # EmptyBag
    /\ \E q \in Plugins \ {op.plugin} : store[q] # EmptyBag

----------------------------------------------------------------------------
(* The loading specification: one plugin class is constructed, once, and the *)
(* instance, if there is one, is asked for its ident                        *)

InitLoad ==
    /\ store = [p \in Plugins |-> EmptyBag]
    /\ now = 0
    /\ tz = 0
    /\ op = NoOp
    /\ retry = Untracked
    /\ instances = {}
    /\ sched = NoSchedule
    /\ resp = NoResp

\* cls(schedule, config): BasePlugin.__init__
Construct(cls) ==
    /\ op = NoOp
    /\ op' = [NoOp EXCEPT !.kind = "construct", !.cls = Some(cls),
                          !.res = init_check(cls)]
    /\ instances' = IF op'.res.exc = "" THEN {cls} ELSE instances
    /\ UNCHANGED <<store, now, tz, retry, sched, resp>>

\* plugin.ident, read on a constructed instance
Ident(plugin) ==
    /\ op' = [NoOp EXCEPT !.kind = "ident", !.cls = Some(plugin),
                          !.res = [exc |-> "", val |-> Some(ident(plugin))]]
    /\ UNCHANGED <<store, now, tz, retry, instances, sched, resp>>

NextLoad ==
    \/ \E cls \in Classes : Construct(cls)
    \/ \E plugin \in instances : Ident(plugin)

SpecLoad == InitLoad /\ [][NextLoad]_vars

\* C4: constructing a class fails exactly when name, summary or description is
\* None or empty, and every instance that exists has all three.
ConstructionRequiresIdentity ==
    /\ \A plugin \in instances :
          truthy(plugin.name) /\ truthy(plugin.summary)
          /\ truthy(plugin.description)
    /\ op.kind = "construct" =>
          LET cls == op.cls[1]
              complete == /\ cls.name \notin {None, Some(<<>>)}
                          /\ cls.summary \notin {None, Some(<<>>)}
                          /\ cls.description \notin {None, Some(<<>>)}
          IN /\ (op.res.exc = "ValueError") <=> ~complete
             /\ (op.res.exc = "" /\ cls \in instances) <=> complete
    /\ op.kind = "ident" => op.cls[1] \in instances

\* C4 witness: a class with name and summary but an empty description was
\* refused, and no instance exists
RefusedWithoutDescription ==
    /\ op.kind = "construct"
    /\ truthy(op.cls[1].name) /\ truthy(op.cls[1].summary)
    /\ op.cls[1].description = Some(<<>>)
    /\ op.res.exc = "ValueError"
    /\ instances = {}

\* what the name part of an ident is, a character at a time: a space becomes a
\* hyphen, a character of the bad list goes, any other is lower-cased
RECURSIVE NameChars(_, _)
NameChars(str, space) ==
    IF str = <<>> THEN <<>>
    ELSE LET c == Head(str)
             out == IF c = " " THEN space
                    ELSE IF \E k \in 1..Len(bad) : bad[k] = c THEN <<>>
                    ELSE <<lower_char(c)>>
         IN out \o NameChars(Tail(str), space)

NamePart(str) == NameChars(str, <<"-">>)

SchedulePart(cls) ==
    IF cls.schedule = None THEN <<>> ELSE <<"-">> \o cls.schedule[1]

\* C7 as stated: the ident is the lower-cased name with every space removed
\* and the bad characters stripped, then the schedule suffix.
IdentDropsSpaces ==
    op.kind = "ident" =>
        op.res.val[1] = NameChars(op.cls[1].name[1], <<>>)
                        \o SchedulePart(op.cls[1])

\* C7 amended: the ident is the lower-cased name with every space replaced by
\* a hyphen and the bad characters stripped, then a hyphen and the schedule's
\* string when a schedule is attached; its name part holds no space, no bad
\* character and no upper-case letter.
IdentNormalized ==
    op.kind = "ident" =>
        LET cls == op.cls[1]
            got == op.res.val[1]
            n == Len(got) - Len(SchedulePart(cls))
        IN /\ got = NamePart(cls.name[1]) \o SchedulePart(cls)
           /\ \A i \in 1..n :
                 /\ got[i] \notin {" ", "A"}
                 /\ \A k \in 1..Len(bad) : got[i] # bad[k]

\* C7 witness: a name with a capital, a space and a bad character, scheduled
IdentOfMixedName ==
    /\ op.kind = "ident"
    /\ op.cls[1].schedule # None
    /\ \E i, j \in 1..Len(op.cls[1].name[1]) :
          op.cls[1].name[1][i] = " " /\ op.cls[1].name[1][j] \in {"(", ",", "A"}
    /\ \E i \in 1..Len(op.res.val[1]) : op.res.val[1][i] = "-"

----------------------------------------------------------------------------
(* The schedule specification: Schedule.next_boundary *)

ceil_div(a, b) == (a + b - 1) \div b

floor_boundary(after) ==
    IF after <= sched.epoch THEN sched.epoch
    ELSE sched.epoch + ((after - sched.epoch) \div sched.interval)
                       * sched.interval

\* schedule.next_boundary(after): the first boundary at or after the epoch and
\* at or after `after`, boundaries being whole intervals from the epoch
next_boundary(after) ==
    IF after <= sched.epoch THEN sched.epoch
    ELSE sched.epoch + ceil_div(after - sched.epoch, sched.interval)
                       * sched.interval

Instants == 0..(MaxEpoch + 2 * MaxInterval + 1)

InitSchedule ==
    /\ store = [p \in Plugins |-> EmptyBag]
    /\ now = 0
    /\ tz = 0
    /\ op = NoOp
    /\ retry = Untracked
    /\ instances = {}
    /\ sched \in [epoch : 0..MaxEpoch, interval : 1..MaxInterval]
    /\ resp = NoResp

NextBoundary(after) ==
    /\ op' = [NoOp EXCEPT !.kind = "next_boundary", !.when = after,
                          !.res = [exc |-> "", val |-> Some(next_boundary(after))]]
    /\ UNCHANGED <<store, now, tz, retry, instances, sched, resp>>

NextSchedule == \E after \in Instants : NextBoundary(after)

SpecSchedule == InitSchedule /\ [][NextSchedule]_vars

IntMax(a, b) == IF a >= b THEN a ELSE b

\* C5: next_boundary(t) is E + k*I for some k >= 0, is the smallest such value
\* at or after max(E, t), is never before the epoch, and is monotonic in t.
BoundaryAligned ==
    /\ op.kind = "next_boundary" =>
          LET E == sched.epoch
              I == sched.interval
              t == op.when
              b == op.res.val[1]
          IN /\ \E k \in 0..(t + 1) : b = E + k * I
             /\ b >= IntMax(E, t)
             /\ b >= E
             /\ \A k \in 0..(t + 1) :
                   E + k * I >= IntMax(E, t) => b <= E + k * I
    /\ \A t1, t2 \in Instants :
          t1 <= t2 => next_boundary(t1) <= next_boundary(t2)

\* C5 witness: an instant strictly between two boundaries after the epoch
BoundaryRoundedUp ==
    /\ op.kind = "next_boundary"
    /\ sched.interval > 1
    /\ op.when > sched.epoch
    /\ op.res.val[1] > op.when
    /\ op.res.val[1] > sched.epoch + sched.interval

----------------------------------------------------------------------------
(* The query service's requests *)

NoArgs == [order |-> None, limit |-> None, start |-> None, stop |-> None,
           paginate |-> None, page |-> None, rows_per_page |-> None]

\* GET /api/<name>
PluginModel(name, args, accept) ==
    /\ resp = NoResp
    /\ LET stop == IF args.stop = None THEN now ELSE args.stop[1]
           model == IF has_model(name) THEN store[name] ELSE EmptyBag
       IN \E rows \in order_by(filtered(model, args.start, stop), args.order) :
             resp' = [endpoint |-> "model", name |-> name, args |-> args,
                      accept |-> accept, rows |-> rows,
                      out |-> plugin_model(name, args, accept, rows)]
    /\ UNCHANGED <<store, now, tz, op, retry, instances, sched>>

\* GET /api/<name>/layout
PluginLayout(name, accept) ==
    /\ resp = NoResp
    /\ resp' = [endpoint |-> "layout", name |-> name, args |-> NoArgs,
                accept |-> accept, rows |-> <<>>,
                out |-> [status |-> plugin_layout(name, accept),
                         items |-> <<>>, headers |-> NoHeaders,
                         mimetype |-> get_mimetype(accept)]]
    /\ UNCHANGED <<store, now, tz, op, retry, instances, sched>>

\* GET /api/
PluginIndex(accept) ==
    /\ resp = NoResp
    /\ resp' = [endpoint |-> "index", name |-> "", args |-> NoArgs,
                accept |-> accept, rows |-> <<>>,
                out |-> [status |-> plugin_index(accept),
                         items |-> <<>>, headers |-> NoHeaders,
                         mimetype |-> get_mimetype(accept)]]
    /\ UNCHANGED <<store, now, tz, op, retry, instances, sched>>

\* the response is sent; the service, which serves one request at a time, is
\* idle again
Reply ==
    /\ resp # NoResp
    /\ resp' = NoResp
    /\ UNCHANGED <<store, now, tz, op, retry, instances, sched>>

\* the Models a request may find: every bag of at most MaxRows rows
RECURSIVE BagsOver(_, _)
BagsOver(rows, n) ==
    IF rows = {} \/ n = 0 THEN {EmptyBag}
    ELSE LET r == CHOOSE x \in rows : TRUE
         IN UNION {{IF k = 0 THEN b ELSE b (+) [x \in {r} |-> k] :
                     b \in BagsOver(rows \ {r}, n - k)} : k \in 0..n}

Names == Plugins \cup {"nosuch"}
Accepts == {{"application/json"}, {"text/csv"}, {"text/html"},
            {"text/html", "text/javascript"}}
OptTimes == {None} \cup {Some(t) : t \in Times}

\* The query specification: time windows and order
InitQuery ==
    /\ store \in [Plugins -> BagsOver(Rows, MaxRows)]
    /\ store["history"] = SetToBag({[ts |-> 0, val |-> "y"]})
    /\ now \in Times
    /\ tz \in {0, 1}
    /\ op = Unobserved
    /\ retry = Untracked
    /\ instances = {}
    /\ sched = NoSchedule
    /\ resp = NoResp

QueryArgs ==
    {[NoArgs EXCEPT !.order = o, !.start = a, !.stop = b, !.limit = l] :
        o \in {None, Some("asc")}, a \in OptTimes, b \in OptTimes,
        l \in {None, Some(1)}}

NextQuery ==
    \/ \E name \in Plugins : \E args \in QueryArgs :
          \E accept \in {{"application/json"}, {"text/csv"}} :
              PluginModel(name, args, accept)
    \/ Reply

SpecQuery == InitQuery /\ [][NextQuery]_vars

SeqBag(q) ==
    [r \in {q[i] : i \in 1..Len(q)} |-> Cardinality({i \in 1..Len(q) : q[i] = r})]

\* C8: a model query returns the rows of the plugin's Model with
\* start <= timestamp <= stop, both ends included and no lower end when start
\* is omitted, by non-decreasing timestamp for 'asc' and non-increasing
\* otherwise.
WindowInclusiveAndOrdered ==
    (resp.endpoint = "model" /\ resp.out.status = 200) =>
        LET items == resp.out.items
            a == resp.args
            model == store[resp.name]
            hi == (IF a.stop = None THEN now ELSE a.stop[1]) + tz
            inside == {r \in BagToSet(model) :
                         /\ r.ts <= hi
                         /\ a.start # None => a.start[1] + tz <= r.ts}
        IN /\ \A i, j \in 1..Len(items) :
                 i < j => IF a.order = Some("asc") THEN items[i].ts <= items[j].ts
                          ELSE items[i].ts >= items[j].ts
           /\ \A i \in 1..Len(items) : items[i] \in inside
           /\ (a.limit = None /\ ~wants_pagination(a)) =>
                 SeqBag(items) = [r \in inside |-> model[r]]

\* C8 witness: an ascending query whose stop is the newest row's timestamp
\* returned that row after an older one
StopAtNewestRow ==
    /\ resp.endpoint = "model"
    /\ resp.out.status = 200
    /\ resp.args.order = Some("asc")
    /\ resp.args.stop # None
    /\ resp.args.limit = None
    /\ newest_timestamp(store[resp.name]) = Some(resp.args.stop[1] + tz)
    /\ Len(resp.out.items) = 2
    /\ resp.out.items[1].ts < resp.out.items[2].ts
    /\ resp.out.items[2].ts = resp.args.stop[1] + tz

----------------------------------------------------------------------------
(* The service specification: every endpoint, pagination and limits *)

\* a Model of n0, n1 and n2 rows at instants 0, 1 and 2
Seeded(n0, n1, n2) ==
    LET n == <<n0, n1, n2>>
        keep == {r \in Written : r.ts <= 2 /\ n[r.ts + 1] > 0}
    IN [r \in keep |-> n[r.ts + 1]]

PageSeeds ==
    {Seeded(0, 0, 0), Seeded(1, 0, 0), Seeded(1, 1, 1), Seeded(10, 10, 5),
     Seeded(50, 50, 1), Seeded(100, 100, 5)}

InitService ==
    /\ store \in [Plugins -> PageSeeds]
    /\ store["history"] = Seeded(1, 0, 0)
    /\ now = MaxTime
    /\ tz = 0
    /\ op = Unobserved
    /\ retry = Untracked
    /\ instances = {}
    /\ sched = NoSchedule
    /\ resp = NoResp

PageArgs ==
    {[NoArgs EXCEPT !.limit = l, !.paginate = w, !.page = p,
                    !.rows_per_page = n] :
        l \in {None, Some(1), Some(5), Some(120)},
        w \in {None, Some("true")},
        p \in {None, Some(1), Some(2), Some(3)},
        n \in {None, Some(0), Some(1), Some(10), Some(100), Some(150)}}

NextService ==
    \/ \E accept \in Accepts : PluginIndex(accept)
    \/ \E name \in Names : \E accept \in Accepts : PluginLayout(name, accept)
    \/ \E name \in Names : \E args \in PageArgs : \E accept \in Accepts :
          PluginModel(name, args, accept)
    \/ Reply

SpecService == InitService /\ [][NextService]_vars

\* the page length a paginated request asks for
PageLength(a) ==
    IF a.rows_per_page = None \/ a.rows_per_page[1] > 100 THEN 100
    ELSE a.rows_per_page[1]

PageNumber(a) == IF a.page = None THEN 1 ELSE a.page[1]

CeilDiv(n, l) == IF n % l = 0 THEN n \div l ELSE n \div l + 1

\* the request's result set: its ordered rows, the first K of them under limit K
ResultSet ==
    IF resp.args.limit = None THEN resp.rows
    ELSE SubSeq(resp.rows, 1, IntMin(resp.args.limit[1], Len(resp.rows)))

Paginated ==
    /\ resp.endpoint = "model"
    /\ resp.out.status = 200
    /\ wants_pagination(resp.args)

\* C6: a paginated response over a result set of N rows with page length L
\* reports ceil(N / L) pages, and page p of them holds exactly the rows at
\* positions (p-1)*L+1 .. min(p*L, N) of the result set.
PagesPartitionResult ==
    Paginated =>
        LET N == Len(ResultSet)
            L == PageLength(resp.args)
            p == PageNumber(resp.args)
        IN /\ resp.out.headers.count = CeilDiv(N, L)
           /\ (1 <= p /\ p <= resp.out.headers.count) =>
                 resp.out.items = SubSeq(ResultSet, (p - 1) * L + 1,
                                         IntMin(p * L, N))

\* C10: under limit K a paginated response counts its pages over at most K
\* rows and returns no row beyond the K-th of the ordered result.
LimitBeforePagination ==
    (Paginated /\ resp.args.limit # None) =>
        LET K == resp.args.limit[1]
            L == PageLength(resp.args)
            p == PageNumber(resp.args)
        IN /\ resp.out.headers.count = CeilDiv(IntMin(K, Len(resp.rows)), L)
           /\ Len(resp.out.items) <= K
           /\ (p - 1) * L + Len(resp.out.items) <= IntMax(K, (p - 1) * L)

\* C9: the model and layout endpoints answer 404 for a name that is no
\* registered plugin, and 406 for a registered plugin when the client accepts
\* none of the supported representations.
UnknownIs404 ==
    resp.endpoint \in {"model", "layout"} =>
        /\ resp.name \notin Plugins => resp.out.status = 404
        /\ (resp.name \in Plugins
            /\ \A i \in 1..Len(supported) : supported[i] \notin resp.accept)
              => resp.out.status = 406

\* The same calls, with the revert-then-update retries tracked instead
InitRetry ==
    /\ store = [p \in Plugins |-> EmptyBag]
    /\ now = 0
    /\ tz \in {0, 1}
    /\ op = Unobserved
    /\ retry = NoRetry
    /\ instances = {}
    /\ sched = NoSchedule
    /\ resp = NoResp

SpecRetry == InitRetry /\ [][NextPlugin]_vars

\* C2: revert(w) then update, done twice with the same rows written, all at or
\* after w, leaves the Model as doing it once left it.
RetryIdempotent ==
    retry.phase = 4 => store[retry.plugin] = retry.once

\* C2 witness: the second round has run, over rows older than w that stayed
RetriedOnce ==
    /\ retry.phase = 4
    /\ retry.written # {}
    /\ \E r \in BagToSet(store[retry.plugin]) : r.ts < retry.when

====
